---- MODULE Spec2Model ----
(***************************************************************************)
(* Model of the AI pull-request reviewer:                                  *)
(*   .github/workflows/scripts/utils.py       filter_files,                *)
(*                                            parse_patch_for_line         *)
(*   .github/workflows/scripts/github_api.py  GitHubAPI                    *)
(*   .github/workflows/scripts/ai_reviewer.py AICodeReviewer               *)
(*   .github/workflows/scripts/pr_reviewer.py main                         *)
(*                                                                         *)
(* Text is modelled as a sequence of one-character strings, a patch as the *)
(* sequence of its lines (patch.split('\n')).                              *)
(***************************************************************************)
EXTENDS Integers, Sequences, FiniteSets, TLC

VARIABLES
    op,                  \* which pure function runs, and whether it returned
    patch,               \* parse_patch_for_line: argument
    line,                \* parse_patch_for_line: local `line` / return value
    files,               \* filter_files: argument
    exclusion_patterns,  \* filter_files: argument
    filtered_files,      \* filter_files: local / return value
    pc,                  \* main: the step it is at
    missing_env,         \* the required environment variables that are not set
    review_event,        \* REVIEW_EVENT (configuration)
    server_files,        \* hosting API: the changed files of the pull request
    now,                 \* time.time()
    rate_limit_remaining,\* GitHubAPI.rate_limit_remaining
    rate_limit_reset,    \* GitHubAPI.rate_limit_reset
    slept,               \* _make_request: whether the latest call slept before its request
    requests,            \* every requests.request call issued, in order
    headers,             \* _make_request: the rate-limit headers of the latest response
    page,                \* get_pr_files: page
    all_files,           \* get_pr_files: all_files
    pages,               \* get_pr_files: every files_page received, in order
    commit_id,           \* main: commit_id
    pr_files,            \* main: pr_files
    files_to_review,     \* main: files_to_review
    file_idx,            \* main: position of the per-file loop in files_to_review[:MAX_FILES]
    file_names,          \* main: file_names
    review_comments,     \* main: review_comments
    ai_calls,            \* every call of the inference service, in order
    summary,             \* main: summary
    error                \* main: str(e) of the exception caught

fnvars == <<op, patch, line, files, exclusion_patterns, filtered_files>>

ratevars == <<now, rate_limit_remaining, rate_limit_reset, slept, requests, headers>>

fetchvars == <<page, all_files, pages, commit_id, pr_files>>

reviewvars == <<files_to_review, file_idx, file_names, review_comments, ai_calls, summary>>

mainvars == <<pc, missing_env, review_event, server_files, ratevars, fetchvars,
              reviewvars, error>>

vars == <<fnvars, mainvars>>

(***************************************************************************)
(* Bounds of the model.                                                    *)
(***************************************************************************)
MaxPatchLines == 4
MaxFilterFiles == 2

\* Configuration: max_changes (500 unless configured), scaled down.
MAX_CHANGES == 2

\* Configuration: max_files (10 unless configured), scaled down.
MAX_FILES == 2

\* get_pr_files: per_page (100 unless given), scaled down.
per_page == 2

\* The most changed files the pull request has on the hosting API.
MaxServerFiles == 3

\* The most changed files of the pull requests get_pr_files is paged over.
MaxPagingFiles == 5

\* The clock stops advancing on its own at MaxTime; ResetTime is the reset
\* time the hosting API announces in X-RateLimit-Reset.
MaxTime == 2
ResetTime == 2

\* Python's None where an integer is expected (no match, no return).
NoInt == -1

(***************************************************************************)
(* Text helpers: str.startswith, re.search(r'\+(\d+)', s), int().          *)
(***************************************************************************)
Digits == {"0", "1", "2", "3", "4", "5", "6", "7", "8", "9"}

DigitValue(c) ==
    CASE c = "0" -> 0 [] c = "1" -> 1 [] c = "2" -> 2 [] c = "3" -> 3
      [] c = "4" -> 4 [] c = "5" -> 5 [] c = "6" -> 6 [] c = "7" -> 7
      [] c = "8" -> 8 [] c = "9" -> 9

startswith(s, prefix) ==
    /\ Len(s) >= Len(prefix)
    /\ \A k \in 1..Len(prefix) : s[k] = prefix[k]

\* Positions p where the pattern \+(\d+) can match: a '+' followed by a digit.
PlusDigitPositions(s) ==
    {p \in 1..(Len(s) - 1) : s[p] = "+" /\ s[p + 1] \in Digits}

Min(S) == CHOOSE x \in S : \A y \in S : x <= y

\* Last position of the maximal run of digits that starts at position p.
RECURSIVE DigitRunEnd(_, _)
DigitRunEnd(s, p) ==
    IF p + 1 <= Len(s) /\ s[p + 1] \in Digits THEN DigitRunEnd(s, p + 1) ELSE p

\* int(): decimal value of the digits s[from..to].
RECURSIVE int(_, _, _)
int(s, from, to) ==
    IF to < from THEN 0 ELSE 10 * int(s, from, to - 1) + DigitValue(s[to])

\* re.search(r'\+(\d+)', s): NoInt when there is no match, else
\* int(match.group(1)) of the leftmost match.
re_search_plus_digits(s) ==
    IF PlusDigitPositions(s) = {} THEN NoInt
    ELSE LET p == Min(PlusDigitPositions(s))
         IN  int(s, p + 1, DigitRunEnd(s, p + 1))

(***************************************************************************)
(* utils.parse_patch_for_line                                              *)
(***************************************************************************)
\* Mutant: the '+++' file-header test is left out.
IsAdditionLine_NoFileHeaderTest(line_content) ==
    startswith(line_content, <<"+">>)

IsAdditionLine(line_content) ==
    startswith(line_content, <<"+">>) /\ ~startswith(line_content, <<"+", "+", "+">>)

\* Mutant: line_offset = idx - i (the header line itself is counted).
RECURSIVE ScanBack_OffsetCountsHeader(_, _, _)
ScanBack_OffsetCountsHeader(lines, idx, i) ==
    IF i < 1 THEN NoInt
    ELSE IF startswith(lines[i], <<"@", "@">>) /\ re_search_plus_digits(lines[i]) # NoInt
         THEN re_search_plus_digits(lines[i]) + (idx - i)
         ELSE ScanBack_OffsetCountsHeader(lines, idx, i - 1)

\* Mutant: line_offset = i - idx + 1 (the subtraction is the wrong way round).
RECURSIVE ScanBack_OffsetReversed(_, _, _)
ScanBack_OffsetReversed(lines, idx, i) ==
    IF i < 1 THEN NoInt
    ELSE IF startswith(lines[i], <<"@", "@">>) /\ re_search_plus_digits(lines[i]) # NoInt
         THEN re_search_plus_digits(lines[i]) + (i - idx + 1)
         ELSE ScanBack_OffsetReversed(lines, idx, i - 1)

\* Inner loop: for i in range(idx, -1, -1); positions are 1-based here, so the
\* offset idx - i - 1 is unchanged.  NoInt when the loop ends without a return.
RECURSIVE ScanBack(_, _, _)
ScanBack(lines, idx, i) ==
    IF i < 1 THEN NoInt
    ELSE IF startswith(lines[i], <<"@", "@">>) /\ re_search_plus_digits(lines[i]) # NoInt
         THEN re_search_plus_digits(lines[i]) + (idx - i - 1)
         ELSE ScanBack(lines, idx, i - 1)

\* Outer loop: for idx, line_content in enumerate(lines).
RECURSIVE ScanLines(_, _)
ScanLines(lines, idx) ==
    IF idx > Len(lines) THEN 1
    ELSE IF IsAdditionLine(lines[idx]) /\ ScanBack(lines, idx, idx) # NoInt
         THEN ScanBack(lines, idx, idx)
         ELSE ScanLines(lines, idx + 1)

parse_patch_for_line(p) == ScanLines(p, 1)

(***************************************************************************)
(* utils.filter_files                                                      *)
(*                                                                         *)
(* A file is the dictionary the hosting API returns, as a record; the key  *)
(* "patch" may be missing.                                                 *)
(***************************************************************************)
\* fnmatch.fnmatch(filename, pattern) for patterns made of literal
\* characters, '*' and '?': name[i..] against pattern[j..].
RECURSIVE GlobMatch(_, _, _, _)
GlobMatch(name, i, pattern, j) ==
    IF j > Len(pattern) THEN i > Len(name)
    ELSE IF pattern[j] = "*"
         THEN \/ GlobMatch(name, i, pattern, j + 1)
              \/ i <= Len(name) /\ GlobMatch(name, i + 1, pattern, j)
         ELSE /\ i <= Len(name)
              /\ pattern[j] = "?" \/ pattern[j] = name[i]
              /\ GlobMatch(name, i + 1, pattern, j + 1)

fnmatch(filename, pattern) == GlobMatch(filename, 1, pattern, 1)

\* The empty string, split into lines.
EmptyText == <<<<>>>>

\* file_data.get("patch"), as the truth value `if not ...` tests.
HasPatch(file_data) ==
    "patch" \in DOMAIN file_data /\ file_data.patch # EmptyText

\* Mutant: `changes >= max_changes` instead of `changes > max_changes`.
Skipped_ChangesAtLimit(file_data, max_changes, patterns) ==
    \/ file_data.status = "removed" \/ file_data.changes >= max_changes
    \/ ~HasPatch(file_data)
    \/ \E k \in 1..Len(patterns) : fnmatch(file_data.filename, patterns[k])

\* The three `continue` tests of the loop body.
Skipped(file_data, max_changes, patterns) ==
    \/ file_data.status = "removed" \/ file_data.changes > max_changes
    \/ ~HasPatch(file_data)
    \/ \E k \in 1..Len(patterns) : fnmatch(file_data.filename, patterns[k])

\* for file_data in files: ... filtered_files.append(file_data)
RECURSIVE FilterLoop(_, _, _, _, _)
FilterLoop(fs, k, max_changes, patterns, acc) ==
    IF k > Len(fs) THEN acc
    ELSE FilterLoop(fs, k + 1, max_changes, patterns,
                    IF Skipped(fs[k], max_changes, patterns) THEN acc
                    ELSE Append(acc, fs[k]))

filter_files(fs, max_changes, patterns) == FilterLoop(fs, 1, max_changes, patterns, <<>>)

(***************************************************************************)
(* Patches given to parse_patch_for_line: every sequence of 1..MaxPatchLines *)
(* lines drawn from the kinds of line of a unified diff.                   *)
(***************************************************************************)
\* "@@ -5,2 +5,1 @@"
HunkA == <<"@", "@", " ", "-", "5", ",", "2", " ", "+", "5", ",", "1", " ", "@", "@">>
\* "@@ -10,5 +20,6 @@"
HunkB == <<"@", "@", " ", "-", "1", "0", ",", "5", " ", "+", "2", "0", ",", "6", " ", "@", "@">>
\* "@@ -5,1 +4,0 @@": the hunk of a line deleted, nothing added
HunkDel == <<"@", "@", " ", "-", "5", ",", "1", " ", "+", "4", ",", "0", " ", "@", "@">>
\* "@@ x": starts like a hunk header, carries no new-file start
HunkNoStart == <<"@", "@", " ", "x">>
\* "+x": an added line
AddLine == <<"+", "x">>
\* "+++ x": the new-file header of a diff
FileHeaderLine == <<"+", "+", "+", " ", "x">>
\* "-x": a deleted line
DelLine == <<"-", "x">>
\* " x": a context line
CtxLine == <<" ", "x">>

PatchLines == {HunkA, HunkB, HunkNoStart, AddLine, FileHeaderLine, DelLine, CtxLine}

SeqsUpTo(S, n) == UNION {[1..k -> S] : k \in 0..n}

Patches == SeqsUpTo(PatchLines, MaxPatchLines) \ {<<>>}

(***************************************************************************)
(* The state of main and of its GitHubAPI object before main has started:  *)
(* module-level configuration read, nothing requested yet                  *)
(* (GitHubAPI.__init__: rate_limit_remaining = 5000, rate_limit_reset = 0).*)
(***************************************************************************)
Unstarted ==
    /\ now = 1
    /\ rate_limit_remaining = 5000
    /\ rate_limit_reset = 0
    /\ slept = FALSE
    /\ requests = <<>>
    /\ headers = [remaining |-> NoInt, reset |-> NoInt]
    /\ page = 1
    /\ all_files = <<>>
    /\ pages = <<>>
    /\ commit_id = ""
    /\ pr_files = <<>>
    /\ files_to_review = <<>>
    /\ file_idx = 1
    /\ file_names = <<>>
    /\ review_comments = <<>>
    /\ ai_calls = <<>>
    /\ summary = <<>>
    /\ error = ""

MainIdle ==
    /\ pc = "idle"
    /\ missing_env = {}
    /\ review_event = "COMMENT"
    /\ server_files = <<>>
    /\ Unstarted

(***************************************************************************)
(* SpecResolve: parse_patch_for_line applied to every patch of Patches.    *)
(***************************************************************************)
InitResolve ==
    /\ op = "parse_patch_for_line"
    /\ patch \in Patches
    /\ line = 1
    /\ files = <<>>
    /\ exclusion_patterns = <<>>
    /\ filtered_files = <<>>
    /\ MainIdle

ParsePatchForLine ==
    /\ op = "parse_patch_for_line"
    /\ line' = parse_patch_for_line(patch)
    /\ op' = "returned"
    /\ UNCHANGED <<patch, files, exclusion_patterns, filtered_files, mainvars>>

NextResolve == ParsePatchForLine

SpecResolve == InitResolve /\ [][NextResolve]_vars

(***************************************************************************)
(* What the claims about parse_patch_for_line speak of, read off the text  *)
(* of the diff lines.                                                      *)
(***************************************************************************)
\* The hunk headers that carry a new-file range "+start,length".
HunkHeaders == {HunkA, HunkB, HunkDel}

NewStartOf(l) == CASE l = HunkA -> 5 [] l = HunkB -> 20 [] l = HunkDel -> 4

NewLengthOf(l) == CASE l = HunkA -> 1 [] l = HunkB -> 6 [] l = HunkDel -> 0

Max(S) == CHOOSE x \in S : \A y \in S : x >= y

\* Addition lines: lines that start with '+' but not with '+++'.
AdditionIdxs(p) == {k \in 1..Len(p) : p[k][1] = "+" /\ p[k] # FileHeaderLine}

HeaderIdxs(p) == {k \in 1..Len(p) : p[k] \in HunkHeaders}

HeadersBefore(p, idx) == {i \in HeaderIdxs(p) : i < idx}

\* The addition lines that some hunk header precedes.
AnchoredIdxs(p) == {idx \in AdditionIdxs(p) : HeadersBefore(p, idx) # {}}

Returned == op = "returned"

\* C2: for a hunk header followed by context and deletion lines and then the
\* patch's first addition line, the result is the number that added line has
\* in the new file: the hunk's new-file start plus the number of context lines
\* in between (deletion lines are not lines of the new file).
C2_FirstAddedNewFileLine ==
    Returned =>
        \A i \in HeaderIdxs(patch) : \A idx \in AdditionIdxs(patch) :
            ( /\ idx = Min(AdditionIdxs(patch))
              /\ i < idx
              /\ \A k \in (i + 1)..(idx - 1) : patch[k] \in {CtxLine, DelLine} )
            => line = NewStartOf(patch[i])
                        + Cardinality({k \in (i + 1)..(idx - 1) : patch[k] = CtxLine})

\* C3 as stated: a patch with a hunk header and an addition line, in any
\* order, gives a result >= the new-file start of a hunk of the patch.
C3_AtLeastHunkStartAnyOrder ==
    (Returned /\ HeaderIdxs(patch) # {} /\ AdditionIdxs(patch) # {})
        => \E i \in HeaderIdxs(patch) : line >= NewStartOf(patch[i])

\* C3 amended: when a hunk header precedes some addition line, the result is
\* >= the new-file start of the nearest header before the first such line.
C3_AtLeastHunkStart ==
    (Returned /\ AnchoredIdxs(patch) # {})
        => LET idx == Min(AnchoredIdxs(patch))
               i == Max(HeadersBefore(patch, idx))
           IN  line >= NewStartOf(patch[i])

C3_Witness ==
    /\ Returned
    /\ AnchoredIdxs(patch) # {}
    /\ Min(AdditionIdxs(patch)) < Min(HeaderIdxs(patch))
    /\ line >= 5

\* C4: a patch without any addition line gives exactly 1.
C4_NoAdditionGivesOne ==
    (Returned /\ AdditionIdxs(patch) = {}) => line = 1

C4_Witness ==
    /\ Returned
    /\ AdditionIdxs(patch) = {}
    /\ HeaderIdxs(patch) # {}
    /\ \E k \in 1..Len(patch) : patch[k] = DelLine
    /\ \E k \in 1..Len(patch) : patch[k] = FileHeaderLine

\* C5: with the first addition line at idx and the nearest hunk header before
\* it at i, new-file start N, the result is N + (idx - i - 1), every line in
\* between counted; "@@ -10,5 +20,6 @@" directly followed by an addition
\* line gives 20.
C5_StartPlusOffset ==
    /\ (Returned /\ AdditionIdxs(patch) # {}
            /\ HeadersBefore(patch, Min(AdditionIdxs(patch))) # {})
        => LET idx == Min(AdditionIdxs(patch))
               i == Max(HeadersBefore(patch, idx))
           IN  line = NewStartOf(patch[i]) + (idx - i - 1)
    /\ (Returned /\ patch = <<HunkB, AddLine>>) => line = 20

C5_Witness ==
    /\ Returned
    /\ Len(patch) = 4
    /\ patch[1] = HunkB /\ patch[2] = DelLine /\ patch[3] = CtxLine /\ patch[4] = AddLine
    /\ line = 22

\* C19: when no hunk header with a new-file start precedes the first
\* addition line of the patch, the result is 1, whatever follows that line.
C19_FirstAdditionLineOnly ==
    (Returned /\ AdditionIdxs(patch) # {}
        /\ HeadersBefore(patch, Min(AdditionIdxs(patch))) = {})
        => line = 1

(***************************************************************************)
(* SpecFilter: filter_files applied to every list of up to MaxFilterFiles  *)
(* files, under each list of exclusion patterns.                           *)
(***************************************************************************)
\* "a.md", "b.py"
NameAMd == <<"a", ".", "m", "d">>
NameBPy == <<"b", ".", "p", "y">>
\* "*.md", "?.py"
PatternStarMd == <<"*", ".", "m", "d">>
PatternAnyPy == <<"?", ".", "p", "y">>

SomePatch == <<HunkA, CtxLine, AddLine>>

FilterInputFiles ==
    [filename : {NameAMd, NameBPy}, status : {"modified", "removed"},
     changes : {MAX_CHANGES, MAX_CHANGES + 1}, patch : {EmptyText, SomePatch}]
    \cup
    [filename : {NameAMd, NameBPy}, status : {"modified", "removed"},
     changes : {MAX_CHANGES, MAX_CHANGES + 1}]

ExclusionLists == {<<>>, <<PatternStarMd>>, <<PatternStarMd, PatternAnyPy>>}

InitFilter ==
    /\ op = "filter_files"
    /\ files \in SeqsUpTo(FilterInputFiles, MaxFilterFiles)
    /\ exclusion_patterns \in ExclusionLists
    /\ filtered_files = <<>>
    /\ patch = <<>>
    /\ line = 1
    /\ MainIdle

FilterFiles ==
    /\ op = "filter_files"
    /\ filtered_files' = filter_files(files, MAX_CHANGES, exclusion_patterns)
    /\ op' = "returned"
    /\ UNCHANGED <<files, exclusion_patterns, patch, line, mainvars>>

NextFilter == FilterFiles

SpecFilter == InitFilter /\ [][NextFilter]_vars

\* The four conditions of the change filter, read off the file and the text
\* of the patterns.
NameExcluded(filename, patterns) ==
    \E k \in 1..Len(patterns) :
        \/ patterns[k] = PatternStarMd /\ filename = NameAMd
        \/ patterns[k] = PatternAnyPy /\ filename = NameBPy

Qualifies(f, patterns) ==
    /\ f.status # "removed"
    /\ f.changes <= MAX_CHANGES
    /\ "patch" \in DOMAIN f /\ f.patch # EmptyText
    /\ ~NameExcluded(f.filename, patterns)

\* The positions of fs that hold a qualifying file, in increasing order.
RECURSIVE QualifyingIdxs(_, _, _)
QualifyingIdxs(fs, patterns, k) ==
    IF k > Len(fs) THEN <<>>
    ELSE (IF Qualifies(fs[k], patterns) THEN <<k>> ELSE <<>>)
             \o QualifyingIdxs(fs, patterns, k + 1)

\* C6: filter_files returns exactly the files that satisfy all four
\* conditions, each once, in their input order.
C6_FilterExactInOrder ==
    Returned =>
        LET q == QualifyingIdxs(files, exclusion_patterns, 1)
        IN  /\ Len(filtered_files) = Len(q)
            /\ \A k \in 1..Len(q) : filtered_files[k] = files[q[k]]

C6_Witness ==
    /\ Returned
    /\ Len(files) = 2
    /\ exclusion_patterns = <<PatternStarMd>>
    /\ files[1].filename = NameAMd /\ Qualifies(files[2], exclusion_patterns)
    /\ filtered_files = <<files[2]>>

(***************************************************************************)
(* github_api.GitHubAPI                                                    *)
(***************************************************************************)
\* rate_limit_remaining after __init__, and the low-water mark of _make_request.
InitialRemaining == 5000
LowWaterMark == 10
\* The status from which a response is an error.
ErrorStatus == 400

\* What the hosting API may answer: a status, and the rate-limit headers
\* X-RateLimit-Remaining and X-RateLimit-Reset (NoInt: header not present).
Responses ==
    [status : {200, ErrorStatus},
     remaining : {NoInt, LowWaterMark - 1},
     reset : {NoInt, ResetTime}]

\* Mutant: the rate-limit sleep is left out.
IssueTime_NoSleep(remaining, reset, current_time) == current_time

\* _make_request, before the request: the time at which requests.request
\* is called, after time.sleep(rate_limit_reset - current_time + 1) if any.
IssueTime(remaining, reset, current_time) ==
    IF remaining < LowWaterMark /\ current_time < reset
    THEN current_time + (reset - current_time + 1)
    ELSE current_time

\* Mutant: the tracked value is overwritten even when the header is absent.
Refreshed_Always(tracked, header) == header

\* _make_request, after the response: a header that is present replaces the
\* tracked value.
Refreshed(tracked, header) == IF header # NoInt THEN header ELSE tracked

\* Mutant: the status test is inverted, a success raises.
Raises_Below400(resp) == resp.status < ErrorStatus

\* Mutant: a response with status 400 is taken for a success.
Raises_Above400(resp) == resp.status > ErrorStatus

\* response.raise_for_status() is reached.
Raises(resp) == resp.status >= ErrorStatus

\* One call of _make_request: its effect on the client and on the log of
\* requests issued.
MakeRequest(method, url, params, data, resp) ==
    /\ now' = IssueTime(rate_limit_remaining, rate_limit_reset, now)
    /\ slept' = (now' # now)
    /\ requests' = Append(requests, [method |-> method, url |-> url, params |-> params,
                                     data |-> data, status |-> resp.status])
    /\ headers' = [remaining |-> resp.remaining, reset |-> resp.reset]
    /\ rate_limit_remaining' = Refreshed(rate_limit_remaining, resp.remaining)
    /\ rate_limit_reset' = Refreshed(rate_limit_reset, resp.reset)

NoParams == [page |-> 0]
NoData == [body |-> <<>>]

\* The hosting API's page `p` of the changed files, per_page to a page.
ServerPage(p) ==
    SubSeq(server_files, (p - 1) * per_page + 1,
           IF p * per_page < Len(server_files) THEN p * per_page ELSE Len(server_files))

\* Mutant: the loop of get_pr_files stops at a full page too.
LastPage_AtMost(files_page) == Len(files_page) <= per_page

\* Mutant: the loop of get_pr_files stops at an empty page only.
LastPage_WhenEmpty(files_page) == Len(files_page) = 0

\* get_pr_files: `if len(files_page) < per_page: break`
LastPage(files_page) == Len(files_page) < per_page

\* pr_data["head"]["sha"] of the pull request on the hosting API.
HeadSha == "sha"

\* Mutant: the event is not passed on, the review is always a COMMENT.
ReviewData_DefaultEvent(sha, comments, body, event) ==
    [commit_id |-> sha, body |-> body, event |-> "COMMENT", comments |-> comments]

\* create_review: the request body.
ReviewData(sha, comments, body, event) ==
    [commit_id |-> sha, body |-> body, event |-> event, comments |-> comments]

\* create_issue_comment: the request body.
IssueCommentData(body) == [body |-> body]

(***************************************************************************)
(* ai_reviewer.AICodeReviewer: the inference service answers (ok) or fails.*)
(* Text is a sequence of pieces.                                           *)
(***************************************************************************)
WarningSign == "(warning sign)"

\* Mutant: the placeholder of a failed analysis has no warning sign.
analyze_file_change_NoMarker(filename, p, ok) ==
    IF ok THEN <<"review">> ELSE <<" AI review failed: ", "error">>

\* analyze_file_change: the review text, or on any exception
\* f"(warning sign) AI review failed: {str(e)}".
analyze_file_change(filename, p, ok) ==
    IF ok THEN <<"review">> ELSE <<WarningSign, " AI review failed: ", "error">>

\* generate_pr_summary: the summary text, or on any exception
\* f"## AI Review Summary\n\nFailed to generate summary: {str(e)}".
generate_pr_summary(names, ok) ==
    IF ok THEN <<"## AI Review Summary", "summary">>
    ELSE <<"## AI Review Summary\n\nFailed to generate summary: ", "error">>

(***************************************************************************)
(* pr_reviewer.main: the pull requests it is run on.                       *)
(***************************************************************************)
RequiredEnv == {"GITHUB_TOKEN", "OPENAI_API_KEY", "PR_NUMBER", "REPO_NAME"}

\* REVIEW_EVENT: the default and one of the two other events.
ReviewEvents == {"COMMENT", "REQUEST_CHANGES"}

\* config.get("file_exclusions", [])
FileExclusions == <<PatternStarMd>>

NameCPy == <<"c", ".", "p", "y">>
NameDPy == <<"d", ".", "p", "y">>
NameEBin == <<"e", ".", "b", "i", "n">>

\* b.py: a line added after a context line
FileAdd ==
    [filename |-> NameBPy, status |-> "modified", changes |-> 1,
     patch |-> <<HunkB, CtxLine, AddLine>>]
\* c.py: two lines replaced by one
FileDelAdd ==
    [filename |-> NameCPy, status |-> "modified", changes |-> 2,
     patch |-> <<HunkA, DelLine, DelLine, AddLine>>]
\* d.py: a line deleted, nothing added
FileDelOnly ==
    [filename |-> NameDPy, status |-> "modified", changes |-> 1,
     patch |-> <<HunkDel, DelLine>>]
\* e.bin: a binary file, the hosting API gives no patch
FileNoPatch ==
    [filename |-> NameEBin, status |-> "modified", changes |-> 0]
\* a.md: matches the exclusion pattern *.md
FileDoc ==
    [filename |-> NameAMd, status |-> "added", changes |-> 1,
     patch |-> <<HunkB, AddLine>>]

ChangedFiles == {FileAdd, FileDelAdd, FileDelOnly, FileNoPatch, FileDoc}

\* The changed files of a pull request: unique by filename.
ChangedFileLists ==
    {fs \in SeqsUpTo(ChangedFiles, MaxServerFiles) :
        \A a, b \in 1..Len(fs) : a # b => fs[a] # fs[b]}

Init ==
    /\ op = "main"
    /\ patch = <<>>
    /\ line = 1
    /\ files = <<>>
    /\ exclusion_patterns = <<>>
    /\ filtered_files = <<>>
    /\ pc = "start"
    /\ missing_env \in SUBSET RequiredEnv
    /\ review_event \in ReviewEvents
    /\ server_files \in ChangedFileLists
    /\ Unstarted

(***************************************************************************)
(* pr_reviewer.main, step by step.                                         *)
(***************************************************************************)
\* Mutant: the run is given up only when every required variable is missing.
MissingRequired_All(missing) == missing = RequiredEnv

\* not all([GITHUB_TOKEN, OPENAI_API_KEY, PR_NUMBER, REPO_NAME])
MissingRequired(missing) == missing # {}

\* if not all([GITHUB_TOKEN, OPENAI_API_KEY, PR_NUMBER, REPO_NAME]): sys.exit(1)
Validate ==
    /\ pc = "start"
    /\ pc' = IF MissingRequired(missing_env) THEN "exit1" ELSE "get_pull_request"
    /\ UNCHANGED <<fnvars, missing_env, review_event, server_files, ratevars,
                   fetchvars, reviewvars, error>>

\* Mutant: the failure is noted and the run goes on with the summary.
Caught_Continues(resp) ==
    /\ pc' = "summary"
    /\ error' = "HTTPError"

\* Mutant: the handler starts the run over.
Caught_StartsOver(resp) ==
    /\ pc' = "get_pull_request"
    /\ error' = error

\* The except clause of main is entered with the exception of a request.
Caught(resp) ==
    /\ pc' = "error_comment"
    /\ error' = "HTTPError"

\* pr_data = github.get_pull_request(REPO_NAME, PR_NUMBER)
GetPullRequest ==
    /\ pc = "get_pull_request"
    /\ \E resp \in Responses :
          /\ MakeRequest("GET", "/pulls/N", NoParams, NoData, resp)
          /\ IF Raises(resp) THEN Caught(resp)
             ELSE pc' = "get_pr_files" /\ UNCHANGED error
    /\ UNCHANGED <<fnvars, missing_env, review_event, server_files, fetchvars, reviewvars>>

\* One turn of the loop of get_pr_files; after the last one, main reads
\* commit_id from pr_data.
GetPrFilesPage ==
    /\ pc = "get_pr_files"
    /\ \E resp \in Responses :
          /\ MakeRequest("GET", "/pulls/N/files", [page |-> page], NoData, resp)
          /\ IF Raises(resp)
             THEN /\ Caught(resp)
                  /\ UNCHANGED fetchvars
             ELSE LET files_page == ServerPage(page)
                  IN  /\ all_files' = all_files \o files_page
                      /\ pages' = Append(pages, files_page)
                      /\ UNCHANGED error
                      /\ IF LastPage(files_page)
                         THEN /\ pr_files' = all_files'
                              /\ commit_id' = HeadSha
                              /\ pc' = "filter_files"
                              /\ UNCHANGED page
                         ELSE /\ page' = page + 1
                              /\ UNCHANGED <<pc, pr_files, commit_id>>
    /\ UNCHANGED <<fnvars, missing_env, review_event, server_files, reviewvars>>

\* Mutant: the slice is one file too long.
Reviewed_OneMore(fs) ==
    SubSeq(fs, 1, IF Len(fs) < MAX_FILES + 1 THEN Len(fs) ELSE MAX_FILES + 1)

\* Mutant: the slice is left out, every filtered file is analysed.
Reviewed_All(fs) == fs

\* files_to_review[:MAX_FILES]
Reviewed(fs) == SubSeq(fs, 1, IF Len(fs) < MAX_FILES THEN Len(fs) ELSE MAX_FILES)

\* files_to_review = filter_files(pr_files, MAX_CHANGES, config.get("file_exclusions", []))
FilterPrFiles ==
    /\ pc = "filter_files"
    /\ files_to_review' = filter_files(pr_files, MAX_CHANGES, FileExclusions)
    /\ review_comments' = <<>>
    /\ file_names' = <<>>
    /\ file_idx' = 1
    /\ pc' = "analyze"
    /\ UNCHANGED <<fnvars, missing_env, review_event, server_files, ratevars,
                   fetchvars, ai_calls, summary, error>>

\* The comment object main builds for a file.
Comment(filename, line_number, review) ==
    [path |-> filename, line |-> line_number,
     body |-> <<"### AI Code Review\n\n">> \o review]

\* One turn of `for file_data in files_to_review[:MAX_FILES]`, or its end.
AnalyzeFile ==
    /\ pc = "analyze"
    /\ IF file_idx > Len(Reviewed(files_to_review))
       THEN /\ pc' = "summary"
            /\ UNCHANGED <<file_idx, file_names, review_comments, ai_calls, now>>
       ELSE
       LET file_data == Reviewed(files_to_review)[file_idx]
       IN  /\ file_idx' = file_idx + 1
           /\ pc' = "analyze"
           /\ file_names' = Append(file_names, file_data.filename)
           /\ IF ~HasPatch(file_data)
              THEN UNCHANGED <<review_comments, ai_calls, now>>
              ELSE \E ok \in BOOLEAN :
                    /\ ai_calls' = Append(ai_calls, [call |-> "analyze_file_change",
                                                     filename |-> file_data.filename,
                                                     ok |-> ok])
                    /\ review_comments' =
                          Append(review_comments,
                                 Comment(file_data.filename,
                                         parse_patch_for_line(file_data.patch),
                                         analyze_file_change(file_data.filename,
                                                             file_data.patch, ok)))
                    /\ now' = now + 1
    /\ UNCHANGED <<fnvars, missing_env, review_event, server_files,
                   rate_limit_remaining, rate_limit_reset, slept, requests, headers,
                   fetchvars, files_to_review, summary, error>>

\* summary = ai_reviewer.generate_pr_summary(...)
GenerateSummary ==
    /\ pc = "summary"
    /\ \E ok \in BOOLEAN :
          /\ summary' = generate_pr_summary(file_names, ok)
          /\ ai_calls' = Append(ai_calls, [call |-> "generate_pr_summary",
                                           filename |-> <<>>, ok |-> ok])
    /\ pc' = "submit"
    /\ UNCHANGED <<fnvars, missing_env, review_event, server_files, ratevars,
                   fetchvars, files_to_review, file_idx, file_names, review_comments,
                   error>>

\* summary_with_footer = f"{summary}\n\n---\n*AI PR Review generated at {timestamp}*"
SummaryWithFooter(text, timestamp) ==
    text \o <<"\n\n---\n*AI PR Review generated at ", timestamp, "*">>

\* if review_comments: github.create_review(...)
\* else: github.create_issue_comment(REPO_NAME, PR_NUMBER, summary_with_footer)
SubmitReview ==
    /\ pc = "submit"
    /\ \E resp \in Responses :
          /\ IF review_comments # <<>>
             THEN MakeRequest("POST", "/pulls/N/reviews", NoParams,
                              ReviewData(commit_id, review_comments,
                                         SummaryWithFooter(summary, now), review_event),
                              resp)
             ELSE MakeRequest("POST", "/issues/N/comments", NoParams,
                              IssueCommentData(SummaryWithFooter(summary, now)), resp)
          /\ IF Raises(resp) THEN Caught(resp)
             ELSE pc' = "done" /\ UNCHANGED error
    /\ UNCHANGED <<fnvars, missing_env, review_event, server_files, fetchvars, reviewvars>>

\* Mutant: the error comment leaves out str(e).
ErrorMessage_NoDescription(e) == <<"## ", WarningSign, " AI PR Review Error">>

\* error_message = f"## ... AI PR Review Error ... {str(e)} ..."
ErrorMessage(e) == <<"## ", WarningSign, " AI PR Review Error", e>>

\* except Exception as e: github.create_issue_comment(REPO_NAME, PR_NUMBER,
\* error_message); a failure of that request is logged only.
PostErrorComment ==
    /\ pc = "error_comment"
    /\ \E resp \in Responses :
          MakeRequest("POST", "/issues/N/comments", NoParams,
                      IssueCommentData(ErrorMessage(error)), resp)
    /\ pc' = "done"
    /\ UNCHANGED <<fnvars, missing_env, review_event, server_files, fetchvars,
                   reviewvars, error>>

\* Time passes while main runs.
Tick ==
    /\ pc \notin {"start", "done", "exit1"}
    /\ now < MaxTime
    /\ now' = now + 1
    /\ UNCHANGED <<fnvars, pc, missing_env, review_event, server_files,
                   rate_limit_remaining, rate_limit_reset, slept, requests, headers,
                   fetchvars, reviewvars, error>>

Next ==
    \/ Validate
    \/ GetPullRequest
    \/ GetPrFilesPage
    \/ FilterPrFiles
    \/ AnalyzeFile
    \/ GenerateSummary
    \/ SubmitReview
    \/ PostErrorComment
    \/ Tick

Spec == Init /\ [][Next]_vars

(***************************************************************************)
(* SpecPaging: main run on pull requests of 0..MaxPagingFiles changed      *)
(* files f1, f2, ..., so that get_pr_files pages over several full pages.  *)
(***************************************************************************)
DigitChar(k) == CHOOSE c \in Digits : DigitValue(c) = k

\* "f<k>"
PagingFile(k) ==
    [filename |-> <<"f", DigitChar(k)>>, status |-> "modified", changes |-> 1,
     patch |-> <<HunkB, AddLine>>]

InitPaging ==
    /\ op = "main"
    /\ patch = <<>>
    /\ line = 1
    /\ files = <<>>
    /\ exclusion_patterns = <<>>
    /\ filtered_files = <<>>
    /\ pc = "start"
    /\ missing_env = {}
    /\ review_event \in ReviewEvents
    /\ \E n \in 0..MaxPagingFiles : server_files = [k \in 1..n |-> PagingFile(k)]
    /\ Unstarted

SpecPaging == InitPaging /\ [][Next]_vars

\* The statements of main: the process goes on running until main ends,
\* every sleep being finite.
Step ==
    \/ Validate
    \/ GetPullRequest
    \/ GetPrFilesPage
    \/ FilterPrFiles
    \/ AnalyzeFile
    \/ GenerateSummary
    \/ SubmitReview
    \/ PostErrorComment

FairSpecPaging == InitPaging /\ [][Next]_vars /\ WF_vars(Step)

(***************************************************************************)
(* Claims about main and GitHubAPI.                                        *)
(***************************************************************************)
\* The changed file of the pull request with the given name.
FileNamed(name) ==
    CHOOSE f \in {server_files[k] : k \in 1..Len(server_files)} : f.filename = name

\* `l` is a line of the new file inside a hunk of patch `p`.
InNewRange(l, p) ==
    \E i \in HeaderIdxs(p) :
        /\ NewStartOf(p[i]) <= l
        /\ l <= NewStartOf(p[i]) + NewLengthOf(p[i]) - 1

\* C1: the line of every inline comment built from a patch lies in the
\* new-file range of a hunk of that patch.  Stated here for the patches that
\* have an addition line, deletion lines before it included; the claim also
\* covers the patches of deletions only.
C1_CommentLineInNewRange ==
    \A k \in 1..Len(review_comments) :
        LET p == FileNamed(review_comments[k].path).patch
        IN  AdditionIdxs(p) # {} => InNewRange(review_comments[k].line, p)

RECURSIVE Concat(_)
Concat(ss) == IF ss = <<>> THEN <<>> ELSE Head(ss) \o Concat(Tail(ss))

IsFilesRequest(r) == r.url = "/pulls/N/files"

FilesRequests == SelectSeq(requests, IsFilesRequest)

\* The index of the first page of the hosting API with fewer than per_page files.
FirstShortPage ==
    Min({k \in 1..(Len(server_files) + 1) : Len(ServerPage(k)) < per_page})

\* get_pr_files has returned to main.
GetPrFilesReturned == pc \in {"filter_files", "analyze", "summary", "submit"}

\* C7: get_pr_files requests pages 1, 2, 3, ... and goes on only after full
\* pages; when it has returned, the page it stopped at is the first short
\* page, the result is the concatenation of the pages fetched in page order
\* and the number of requests is the index of that first short page.
C7_PagesUntilFirstShort ==
    /\ \A k \in 1..Len(FilesRequests) : FilesRequests[k].params.page = k
    /\ \A k \in 1..Len(pages) : pages[k] = ServerPage(k)
    /\ \A k \in 1..(Len(pages) - 1) : Len(pages[k]) = per_page
    /\ all_files = Concat(pages)
    /\ pc = "get_pr_files" => \A k \in 1..Len(pages) : Len(pages[k]) = per_page
    /\ GetPrFilesReturned =>
          /\ Len(pages[Len(pages)]) < per_page
          /\ pr_files = Concat(pages)
          /\ pr_files = server_files
          /\ Len(FilesRequests) = Len(pages)
          /\ Len(FilesRequests) = FirstShortPage

\* Two full pages, then a short one: all the files after exactly 3 requests.
C7_Witness ==
    /\ GetPrFilesReturned
    /\ Len(pages) = 3
    /\ Len(pages[1]) = per_page /\ Len(pages[2]) = per_page
    /\ Len(pages[3]) > 0 /\ Len(pages[3]) < per_page
    /\ Len(pr_files) = 2 * per_page + Len(pages[3])
    /\ Len(FilesRequests) = 3

\* C8: a request is never issued while the tracked remaining quota is below
\* 10 and the clock is before the tracked reset time: a call that starts in
\* that situation issues its request at reset time + 1 or later.
C8_SleepsUntilReset ==
    [][ Len(requests') > Len(requests) =>
          /\ ~(rate_limit_remaining < 10 /\ now' < rate_limit_reset)
          /\ (rate_limit_remaining < 10 /\ now < rate_limit_reset)
                => now' >= rate_limit_reset + 1 ]_vars

C8_Witness ==
    /\ slept
    /\ requests # <<>>
    /\ now = ResetTime + 1

IsReview(r) == r.method = "POST" /\ r.url = "/pulls/N/reviews"

IsIssueComment(r) == r.method = "POST" /\ r.url = "/issues/N/comments"

IsErrorComment(r) == IsIssueComment(r) /\ r.data.body = ErrorMessage("HTTPError")

\* A submission: a review, or an issue comment that is not the error comment.
IsSubmission(r) == IsReview(r) \/ (IsIssueComment(r) /\ ~IsErrorComment(r))

Submissions == SelectSeq(requests, IsSubmission)

StartsWith(text, prefix) ==
    Len(text) >= Len(prefix) /\ SubSeq(text, 1, Len(prefix)) = prefix

\* The Submitting step has been taken.
Submitted == pc \in {"done", "error_comment"} /\ summary # <<>>

\* C9: a run that has been through Submitting has made exactly one
\* submission request: with inline comments, one review carrying the head
\* SHA, the summary, all the inline comments and the configured event;
\* without, one issue comment carrying the summary, and no review.
C9_OneSubmission ==
    /\ ~Submitted => Submissions = <<>>
    /\ Submitted =>
          /\ Len(Submissions) = 1
          /\ LET r == Submissions[1]
             IN  IF review_comments # <<>>
                 THEN /\ IsReview(r)
                      /\ r.data.commit_id = HeadSha
                      /\ StartsWith(r.data.body, summary)
                      /\ r.data.comments = review_comments
                      /\ r.data.event = review_event
                 ELSE /\ IsIssueComment(r)
                      /\ StartsWith(r.data.body, summary)
                      /\ \A k \in 1..Len(requests) : ~IsReview(requests[k])

C9_Witness ==
    /\ Submitted
    /\ pc = "done" /\ error = ""
    /\ Len(review_comments) = 2
    /\ review_event = "REQUEST_CHANGES"
    /\ IsReview(requests[Len(requests)])

\* The changed files that have a non-empty patch and pass the filter, the
\* first MAX_FILES of them, in the hosting API's order.
ValidIdxs == QualifyingIdxs(server_files, FileExclusions, 1)

FirstValidIdxs ==
    SubSeq(ValidIdxs, 1, IF Len(ValidIdxs) < MAX_FILES THEN Len(ValidIdxs) ELSE MAX_FILES)

SummaryCalls == {k \in 1..Len(ai_calls) : ai_calls[k].call = "generate_pr_summary"}

\* The run has ended without a failure of the hosting API.
DoneWithoutFailure == pc = "done" /\ error = ""

\* C10: a run without hosting-API failure submits, in order, one inline
\* comment per valid file (the first MAX_FILES of them) and one summary; no
\* inline comment is ever built for a file without a patch; without valid
\* files the submission is the summary alone, as an issue comment.
C10_OneCommentPerValidFile ==
    /\ \A k \in 1..Len(review_comments) :
          LET f == FileNamed(review_comments[k].path)
          IN  "patch" \in DOMAIN f /\ f.patch # EmptyText
    /\ DoneWithoutFailure =>
          LET r == requests[Len(requests)]
          IN  /\ Cardinality(SummaryCalls) = 1
              /\ Len(review_comments) = Len(FirstValidIdxs)
              /\ \A k \in 1..Len(FirstValidIdxs) :
                    review_comments[k].path = server_files[FirstValidIdxs[k]].filename
              /\ IF FirstValidIdxs # <<>>
                 THEN IsReview(r) /\ r.data.comments = review_comments
                 ELSE IsIssueComment(r) /\ ~IsErrorComment(r)
                      /\ \A k \in 1..Len(requests) : ~IsReview(requests[k])
    /\ (DoneWithoutFailure /\ server_files \in {<<FileAdd, FileNoPatch>>,
                                                <<FileNoPatch, FileAdd>>})
          => Len(review_comments) = 1 /\ review_comments[1].path = FileAdd.filename

\* A patchless file first, then a patched one: one inline comment.
C10_Witness ==
    /\ DoneWithoutFailure
    /\ server_files = <<FileNoPatch, FileAdd>>
    /\ Len(review_comments) = 1
    /\ IsReview(requests[Len(requests)])

(***************************************************************************)
(* Claims about the failure handling of main.                              *)
(***************************************************************************)
\* A comment posted on the pull request's conversation that reports an error.
IsErrorPost(r) ==
    IsIssueComment(r) /\ Len(r.data.body) >= 3 /\ r.data.body[3] = " AI PR Review Error"

ErrorPosts == SelectSeq(requests, IsErrorPost)

\* A step of the try block has raised.
HasFailed == error # ""

\* C11: when a step of the try block raises, main posts exactly one error
\* issue comment that contains the failure description; whether that post
\* succeeds or fails, main then returns normally (no exit with status 1).
C11_OneErrorCommentThenReturn ==
    /\ ~HasFailed => ErrorPosts = <<>>
    /\ HasFailed => pc \in {"error_comment", "done"}
    /\ (HasFailed /\ pc = "error_comment") =>
          /\ ErrorPosts = <<>>
          /\ requests[Len(requests)].status >= 400
    /\ (HasFailed /\ pc = "done") =>
          /\ Len(ErrorPosts) = 1
          /\ ErrorPosts[1] = requests[Len(requests)]
          /\ Len(ErrorPosts[1].data.body) >= 4 /\ ErrorPosts[1].data.body[4] = error
          /\ requests[Len(requests) - 1].status >= 400
    /\ pc = "exit1" => ~HasFailed /\ requests = <<>>

\* The error comment was attempted and failed too; main has returned.
C11_Witness ==
    /\ HasFailed
    /\ pc = "done"
    /\ Len(ErrorPosts) = 1
    /\ requests[Len(requests)].status >= 400
    /\ IsReview(requests[Len(requests) - 1])

\* The inference calls that failed, by kind.
FailedAnalyses ==
    {k \in 1..Len(ai_calls) : ai_calls[k].call = "analyze_file_change" /\ ~ai_calls[k].ok}

FailedSummaries ==
    {k \in 1..Len(ai_calls) : ai_calls[k].call = "generate_pr_summary" /\ ~ai_calls[k].ok}

\* The text the k-th inference call returned into the k-th inline comment.
ReviewText(k) == Tail(review_comments[k].body)

\* C12 as stated: the text returned by every failed inference call, per-file
\* analysis or summary, begins with the warning marker.
C12_EveryPlaceholderBeginsWithMarker ==
    /\ \A k \in FailedAnalyses : Head(ReviewText(k)) = WarningSign
    /\ \A k \in FailedSummaries : Head(summary) = WarningSign

\* C12 amended: a failed per-file analysis returns a text beginning with the
\* warning marker, a failed summary returns a text beginning with the
\* "## AI Review Summary" heading followed by "Failed to generate summary";
\* neither raises (a run fails only on a request answered with status >= 400),
\* and the submission carries the degraded texts.
C12_PlaceholdersInsteadOfRaising ==
    /\ \A k \in FailedAnalyses :
          /\ k <= Len(review_comments)
          /\ ReviewText(k) = <<WarningSign, " AI review failed: ", "error">>
    /\ \A k \in FailedSummaries :
          /\ Head(summary) = "## AI Review Summary\n\nFailed to generate summary: "
          /\ Head(summary) # WarningSign
    /\ HasFailed => \E k \in 1..Len(requests) :
                        ~IsErrorPost(requests[k]) /\ requests[k].status >= ErrorStatus
    /\ Submissions # <<>> =>
          LET r == Submissions[1]
          IN  /\ StartsWith(r.data.body, summary)
              /\ IsReview(r) => r.data.comments = review_comments

C12_Witness ==
    /\ DoneWithoutFailure
    /\ FailedAnalyses # {} /\ FailedSummaries # {}
    /\ IsReview(requests[Len(requests)])
    /\ requests[Len(requests)].data.comments[1].body[2] = WarningSign
    /\ requests[Len(requests)].data.body[1] =
          "## AI Review Summary\n\nFailed to generate summary: "

\* The request a step issues, if it issues one.
Requesting == requests' # requests
Issued == requests'[Len(requests')]

\* C13: every call of _make_request issues exactly one request, slept or
\* not; on status >= 400 the call ends in an error (nothing is returned to
\* the caller, main's handler takes over) and the request is not issued
\* again; on status < 400 the call returns the body (the page requested).
C13_OneRequestPerCall ==
    [][Requesting =>
          /\ requests' = Append(requests, Issued)
          /\ (Issued.status >= ErrorStatus /\ pc # "error_comment") =>
                /\ pc' = "error_comment" /\ error' # ""
                /\ UNCHANGED fetchvars
          /\ (Issued.status < ErrorStatus /\ pc # "error_comment") =>
                /\ pc' # "error_comment" /\ error' = error
                /\ IsFilesRequest(Issued) =>
                      pages' = Append(pages, ServerPage(Issued.params.page))
          /\ (requests # <<>> /\ requests[Len(requests)].status >= ErrorStatus) =>
                /\ ~IsErrorPost(requests[Len(requests)])
                /\ IsErrorPost(Issued)
      ]_vars

C13_Witness ==
    /\ Len(requests) = 3
    /\ requests[1].status < ErrorStatus /\ requests[2].status < ErrorStatus
    /\ IsFilesRequest(requests[3]) /\ requests[3].status >= ErrorStatus
    /\ slept
    /\ pc = "error_comment" /\ Len(pages) = 1

\* C14: a step that receives a response, whatever its status, sets the
\* tracked remaining quota to the remaining header if present and leaves it
\* otherwise, and likewise, independently, the tracked reset time; no other
\* step changes either.
C14_RefreshedFromHeaders ==
    [][/\ Requesting =>
             /\ rate_limit_remaining' = IF headers'.remaining # NoInt
                                        THEN headers'.remaining
                                        ELSE rate_limit_remaining
             /\ rate_limit_reset' = IF headers'.reset # NoInt
                                    THEN headers'.reset
                                    ELSE rate_limit_reset
       /\ ~Requesting => UNCHANGED <<rate_limit_remaining, rate_limit_reset>>
      ]_vars

\* A failed response with a remaining header only, after a response that
\* carried a reset header only.
C14_Witness ==
    /\ Len(requests) = 2
    /\ requests[2].status >= ErrorStatus
    /\ headers = [remaining |-> LowWaterMark - 1, reset |-> NoInt]
    /\ rate_limit_remaining = LowWaterMark - 1
    /\ rate_limit_reset = ResetTime
    /\ pc = "error_comment"

(***************************************************************************)
(* Claims about the order of main's steps.                                 *)
(***************************************************************************)
\* C15: with one or more of the four required variables missing, the run
\* ends at sys.exit(1) and has issued no hosting-API request (so posted no
\* comment) and no inference call; sys.exit(1) is reached in no other run.
C15_MissingEnvExitsFirst ==
    /\ missing_env # {} =>
          /\ pc \in {"start", "exit1"}
          /\ requests = <<>>
          /\ ai_calls = <<>>
          /\ error = ""
    /\ pc = "exit1" => missing_env # {}

C15_Witness ==
    /\ pc = "exit1"
    /\ missing_env = {"OPENAI_API_KEY"}
    /\ requests = <<>> /\ ai_calls = <<>>

\* The state of the run: 1 Fetching, 2 Filtering, 3 PerFileAnalysis,
\* 4 SummaryGeneration, 5 Submitting, 6 Done, 7 Failed; 0 before the
\* environment check and 8 after sys.exit(1).
RunState ==
    IF error # "" THEN 7
    ELSE CASE pc = "start" -> 0
           [] pc \in {"get_pull_request", "get_pr_files"} -> 1
           [] pc = "filter_files" -> 2
           [] pc = "analyze" -> 3
           [] pc = "summary" -> 4
           [] pc = "submit" -> 5
           [] pc = "done" -> 6
           [] pc = "exit1" -> 8
           [] OTHER -> 9

\* The kind of a request, in the order main issues them.
RequestRank(r) ==
    IF r.method = "GET" THEN (IF IsFilesRequest(r) THEN 2 ELSE 1)
    ELSE IF IsErrorPost(r) THEN 4 ELSE 3

\* C16: every step of a run keeps its state or moves it to the next one of
\* Fetching, Filtering, PerFileAnalysis, SummaryGeneration, Submitting,
\* Done, or to Failed from one of the first five; the PR-metadata request is the first request and
\* the file-list requests follow it, no fetch is issued after an inference
\* call, no inference call follows the summary call, which is the only one
\* of its kind, and the submission is issued after the summary call.
C16_StatesInOrder ==
    [][/\ \/ RunState' = RunState
          \/ RunState = 0 /\ RunState' \in {1, 8}
          \/ RunState \in 1..5 /\ RunState' = RunState + 1
          \/ RunState \in 1..5 /\ RunState' = 7
       /\ Requesting =>
             /\ RunState \in {1, 5, 7}
             /\ requests = <<>> => RequestRank(Issued) = 1
             /\ requests # <<>> =>
                   /\ RequestRank(Issued) > 1
                   /\ RequestRank(requests[Len(requests)]) <= RequestRank(Issued)
             /\ ai_calls # <<>> => Issued.method # "GET"
             /\ RequestRank(Issued) = 3 =>
                   /\ ai_calls # <<>>
                   /\ ai_calls[Len(ai_calls)].call = "generate_pr_summary"
                   /\ RunState = 5
       /\ ai_calls' # ai_calls =>
             /\ RunState \in {3, 4}
             /\ SummaryCalls = {}
             /\ Submissions = <<>>
             /\ ai_calls'[Len(ai_calls')].call =
                   IF RunState = 3 THEN "analyze_file_change" ELSE "generate_pr_summary"
      ]_vars

C16_Witness ==
    /\ DoneWithoutFailure
    /\ Len(requests) = 4
    /\ Len(ai_calls) = 3
    /\ IsReview(requests[4])

\* The requests of the pipeline (not the error comment) answered with a
\* status >= 400.
FailedRequests ==
    {k \in 1..Len(requests) :
        requests[k].status >= ErrorStatus /\ ~IsErrorPost(requests[k])}

\* C17: a pipeline request answered with status >= 400 ends the pipeline:
\* from then on nothing is fetched, filtered, analysed, summarised or
\* submitted, and the one request still issued is the error comment; when
\* the failed request was a fetch, no inference call and no submission has
\* been or will be made.
C17_NothingAfterFailure ==
    [][/\ (Requesting /\ Issued.status >= ErrorStatus /\ ~IsErrorPost(Issued)) =>
             /\ HasFailed' /\ pc' = "error_comment"
             /\ UNCHANGED <<fetchvars, reviewvars>>
       /\ FailedRequests # {} =>
             /\ HasFailed /\ pc = "error_comment" /\ pc' \in {"error_comment", "done"}
             /\ UNCHANGED <<fetchvars, reviewvars, error>>
             /\ Requesting =>
                   /\ IsErrorPost(Issued) /\ ErrorPosts = <<>>
                   /\ FailedRequests = {Len(requests)}
                   /\ pc' = "done"
       /\ (FailedRequests' # {} /\ \E k \in FailedRequests' : requests'[k].method = "GET") =>
             /\ ai_calls' = <<>>
             /\ Submissions' = <<>>
      ]_vars

C17_Witness ==
    /\ pc = "done"
    /\ Len(requests) = 3
    /\ FailedRequests = {2} /\ IsFilesRequest(requests[2])
    /\ IsErrorPost(requests[3])
    /\ ai_calls = <<>>

IsAnalyzeCall(c) == c.call = "analyze_file_change"

AnalyzeCalls == SelectSeq(ai_calls, IsAnalyzeCall)

\* C18: at no point of a run have more than MAX_FILES per-file inference
\* calls been made or more than MAX_FILES inline comments been built or
\* submitted; the k-th per-file call is for the k-th of the changed files
\* that pass the filter, so none is made for a file after the first
\* MAX_FILES of them.
C18_AtMostMaxFilesCalls ==
    /\ Len(AnalyzeCalls) <= MAX_FILES
    /\ Len(review_comments) <= MAX_FILES
    /\ \A k \in 1..Len(AnalyzeCalls) :
          /\ k <= Len(ValidIdxs)
          /\ AnalyzeCalls[k].filename = server_files[ValidIdxs[k]].filename
    /\ \A k \in 1..Len(requests) :
          IsReview(requests[k]) =>
              /\ Len(requests[k].data.comments) <= MAX_FILES
              /\ Len(requests[k].data.comments) = Len(AnalyzeCalls)

\* More files pass the filter than MAX_FILES.
C18_Witness ==
    /\ DoneWithoutFailure
    /\ Len(ValidIdxs) > MAX_FILES
    /\ Len(AnalyzeCalls) = MAX_FILES
    /\ IsReview(requests[Len(requests)])
    /\ Len(requests[Len(requests)].data.comments) = MAX_FILES

(***************************************************************************)
(* Termination of get_pr_files and of main.                                *)
(***************************************************************************)
\* get_pr_files has returned to main (commit_id is read right after it).
FilesFetched == commit_id # ""

\* C20: for n changed files served page by page, get_pr_files returns after
\* exactly n \div per_page + 1 requests, all of them successful, the last
\* page being empty when n is a multiple of per_page; its loop is left only
\* on a page shorter than per_page or on a failed request; get_pr_files
\* has returned or failed when the run ends, and every run ends, as Done or
\* as Failed.
C20_PagingTerminates ==
    /\ [](FilesFetched =>
            /\ Len(FilesRequests) = (Len(server_files) \div per_page) + 1
            /\ \A k \in 1..Len(FilesRequests) :
                  /\ FilesRequests[k].status < ErrorStatus
                  /\ FilesRequests[k].params.page = k
            /\ Len(pages) = Len(FilesRequests)
            /\ (Len(server_files) % per_page = 0) => pages[Len(pages)] = <<>>
            /\ pr_files = server_files)
    /\ [](pc = "done" => (FilesFetched \/ HasFailed))
    /\ [][(pc = "get_pr_files" /\ pc' # "get_pr_files") =>
            /\ Requesting /\ IsFilesRequest(Issued)
            /\ \/ /\ Issued.status < ErrorStatus
                  /\ Len(pages'[Len(pages')]) < per_page
                  /\ pc' = "filter_files"
               \/ /\ Issued.status >= ErrorStatus
                  /\ pc' = "error_comment"
       ]_vars
    /\ <>(pc = "done")

\* Four files, pages of two: a third, empty page is requested.
C20_Witness ==
    /\ pc = "done" /\ error = ""
    /\ Len(server_files) = 2 * per_page
    /\ Len(FilesRequests) = 3
    /\ pages[3] = <<>>

(***************************************************************************)
(* The outcomes of a run.                                                  *)
(***************************************************************************)
IsPost(r) == r.method = "POST"

Posts == SelectSeq(requests, IsPost)

\* The submissions the hosting API accepted.
Accepted(r) == IsSubmission(r) /\ r.status < ErrorStatus

\* C21: no run has both a submission (review or summary comment) accepted
\* by the hosting API and an error comment posted; a run issues at most two
\* POST requests: at most one submission and at most one error comment,
\* and when both are issued the submission came first and was refused.
C21_OutcomesExclusive ==
    /\ ~(/\ \E k \in 1..Len(requests) : Accepted(requests[k])
         /\ \E k \in 1..Len(requests) : IsErrorPost(requests[k]))
    /\ Len(Posts) <= 2
    /\ Len(SelectSeq(Posts, IsSubmission)) <= 1
    /\ Len(SelectSeq(Posts, IsErrorPost)) <= 1
    /\ \A k \in 1..Len(Posts) : IsSubmission(Posts[k]) \/ IsErrorPost(Posts[k])
    /\ Len(Posts) = 2 =>
          /\ IsSubmission(Posts[1]) /\ Posts[1].status >= ErrorStatus
          /\ IsErrorPost(Posts[2])

\* A refused review followed by the error comment.
C21_Witness ==
    /\ pc = "done"
    /\ Len(Posts) = 2
    /\ IsReview(Posts[1]) /\ Posts[1].status >= ErrorStatus
    /\ IsErrorPost(Posts[2]) /\ Posts[2].status < ErrorStatus

====
